---- MODULE Spec2Model ----
(***************************************************************************)
(* Model of robosuite/controllers/base_controller.py: the Controller base  *)
(* class (lazy kinematic cache, action scaling / torque clipping and the   *)
(* minimum-jerk trajectory generator).                                     *)
(*                                                                         *)
(* Numbers: numpy floats are modelled by exact rationals <<num, den>> in   *)
(* lowest terms with den > 0.  Angles are in units of 1e-7 rad.            *)
(***************************************************************************)
EXTENDS Integers, Sequences, FiniteSets, TLC

\* ------------------------------------------------------------------------
\* Bounds of the model
\* ------------------------------------------------------------------------
MaxTime == 2
MaxHist == 2
MaxSwitch == 2
MaxDuration == 2

\* ------------------------------------------------------------------------
\* Exact rational arithmetic (the model of float arithmetic)
\* ------------------------------------------------------------------------
Abs(x) == IF x < 0 THEN -x ELSE x

RECURSIVE Gcd(_, _)
Gcd(a, b) == IF b = 0 THEN a ELSE Gcd(b, a % b)

Norm(n, d) ==
    LET s == IF d < 0 THEN -1 ELSE 1
        g == Gcd(Abs(n), Abs(d))
    IN  << (s * n) \div g, (s * d) \div g >>

R(n) == << n, 1 >>
RZero == R(0)
RAdd(a, b) ==
    LET g == Gcd(a[2], b[2])
    IN  Norm(a[1] * (b[2] \div g) + b[1] * (a[2] \div g), (a[2] \div g) * b[2])
RNeg(a) == << -a[1], a[2] >>
RSub(a, b) == RAdd(a, RNeg(b))
RMul(a, b) ==
    LET g1 == Gcd(Abs(a[1]), b[2])
        g2 == Gcd(Abs(b[1]), a[2])
    IN  IF a[1] = 0 \/ b[1] = 0 THEN RZero
        ELSE << (a[1] \div g1) * (b[1] \div g2), (a[2] \div g2) * (b[2] \div g1) >>
\* division; the divisor is never zero where the model uses it
RDiv(a, b) == RMul(a, Norm(b[2], b[1]))
RAbs(a) == << Abs(a[1]), a[2] >>
RLeq(a, b) == a[1] * b[2] <= b[1] * a[2]
RLt(a, b) == a[1] * b[2] < b[1] * a[2]
RMin(a, b) == IF RLeq(a, b) THEN a ELSE b
RMax(a, b) == IF RLeq(a, b) THEN b ELSE a
RECURSIVE RPow(_, _)
RPow(a, k) == IF k = 0 THEN R(1) ELSE RMul(a, RPow(a, k - 1))

\* element-wise array arithmetic (numpy broadcasting over equal-length arrays)
VAdd(u, v) == [i \in DOMAIN u |-> RAdd(u[i], v[i])]
VSub(u, v) == [i \in DOMAIN u |-> RSub(u[i], v[i])]
VMul(u, v) == [i \in DOMAIN u |-> RMul(u[i], v[i])]
VDiv(u, v) == [i \in DOMAIN u |-> RDiv(u[i], v[i])]
VAbs(u) == [i \in DOMAIN u |-> RAbs(u[i])]
VScale(k, u) == [i \in DOMAIN u |-> RMul(k, u[i])]
VLeq(u, v) == \A i \in DOMAIN u : RLeq(u[i], v[i])
VInt(u) == [i \in DOMAIN u |-> R(u[i])]

\* Python's None, for attributes that hold arrays
None == << >>

\* ------------------------------------------------------------------------
\* The simulation backend (sim, sim.data, sim.model) as the controller sees it
\* ------------------------------------------------------------------------
\* index sets handed to the constructor (1-based here)
joint_indexes == [joints |-> << 1, 2 >>, qpos |-> << 1, 2 >>, qvel |-> << 1, 2 >>]
joint_index == joint_indexes.joints
qpos_index == joint_indexes.qpos
qvel_index == joint_indexes.qvel
joint_dim == Len(joint_indexes.joints)

\* raw states (qpos, qvel) the stepping loop can put the backend in
SimStates ==
    { [qpos |-> << 0, 0, 0 >>, qvel |-> << 0, 0, 0 >>],
      [qpos |-> << 1, 0, 0 >>, qvel |-> << 1, 0, 1 >>],
      [qpos |-> << 1, 2, 1 >>, qvel |-> << 0, 1, 0 >>] }

CoarseSimStates == { s \in SimStates : s.qpos[1] = 1 }

\* fixed-point unit of a rotation-matrix entry: One stands for 1.0
One == 10000000

\* rotation about z by a small angle a (1e-7 rad): cos a = 1, sin a = a
RotZ(a) == << << One, -a, 0 >>, << a, One, 0 >>, << 0, 0, One >> >>
AngleOf(q) == 5 * q[1] + 7 * q[2]
Angles == { AngleOf(s.qpos) : s \in SimStates }

MatVec(M, v) ==
    [r \in DOMAIN M |->
        LET row == M[r]
            RECURSIVE Dot(_)
            Dot(k) == IF k = 0 THEN 0 ELSE row[k] * v[k] + Dot(k - 1)
        IN  Dot(Len(row))]

\* derived quantities, valid for the raw state of the last forward()/step
site_xpos(s) == VInt(<< s.kq[1] + 1, 2 * s.kq[2], s.kq[1] * s.kq[2] + 1 >>)
site_xmat(s) == RotZ(AngleOf(s.kq))
get_site_jacp(s) == << << 1, 0, 0 >>, << 0, 2, 0 >>, << s.kq[2], s.kq[1], 0 >> >>
get_site_jacr(s) == << << 0, 0, 0 >>, << 0, 0, 0 >>, << 5, 7, 0 >> >>
site_xvelp(s) == MatVec(get_site_jacp(s), s.kv)
site_xvelr(s) == MatVec(get_site_jacr(s), s.kv)
mj_fullM(s) == << << 2 + s.kq[2], 1, 0 >>, << 1, 2, 1 >>, << 0, 1, 3 >> >>

\* sim.forward(): recompute the derived quantities from the raw state
forward(s) == [s EXCEPT !.kq = s.qpos, !.kv = s.qvel]

\* numpy fancy indexing: v[idx], M[:, idx], M[idx, :][:, idx]
Take(v, idx) == [i \in DOMAIN idx |-> v[idx[i]]]
TakeCols(M, idx) == [r \in DOMAIN M |-> Take(M[r], idx)]
TakeSub(M, idx) == TakeCols(Take(M, idx), idx)

\* ------------------------------------------------------------------------
\* Controller state
\* ------------------------------------------------------------------------
\* call: the last event, << name, argument, returned value >>
\* ran: run_controller was called since the last refresh; ncalls: evaluations made;
\* started: << history length, switch >> when the current segment was built
VARIABLES
    sim,
    ee_pos, ee_ori_mat, ee_pos_vel, ee_ori_vel, joint_pos, joint_vel,
    J_pos, J_ori, J_full, mass_matrix,
    new_update,
    initial_joint, initial_ee_pos, initial_ee_ori_mat, initial_ee_ori_vel,
    actuator_min, actuator_max,
    input_min, input_max, output_min, output_max,
    action_scale, action_input_transform, action_output_transform,
    method, switch, desired_vec_fin, final_orientation, seg,
    call,
    ran, ncalls, started

cacheVars == << ee_pos, ee_ori_mat, ee_pos_vel, ee_ori_vel, joint_pos, joint_vel,
                J_pos, J_ori, J_full, mass_matrix >>
initialVars == << initial_joint, initial_ee_pos, initial_ee_ori_mat, initial_ee_ori_vel >>
rangeVars == << actuator_min, actuator_max, input_min, input_max, output_min, output_max >>
scaleVars == << action_scale, action_input_transform, action_output_transform >>
trajVars == << method, switch, desired_vec_fin, final_orientation, seg, ncalls, started >>
vars == << sim, cacheVars, new_update, initialVars, rangeVars, scaleVars, trajVars,
           call, ran >>

\* the ten snapshot fields as update() reads them from the backend
Snapshot(s) ==
    LET Jp == TakeCols(get_site_jacp(s), qvel_index)
        Jr == TakeCols(get_site_jacr(s), qvel_index)
    IN  [ ee_pos |-> site_xpos(s), ee_ori_mat |-> site_xmat(s),
          ee_pos_vel |-> site_xvelp(s), ee_ori_vel |-> site_xvelr(s),
          joint_pos |-> Take(s.qpos, qpos_index), joint_vel |-> Take(s.qvel, qvel_index),
          J_pos |-> Jp, J_ori |-> Jr, J_full |-> Jp \o Jr,
          mass_matrix |-> TakeSub(mj_fullM(s), qvel_index) ]

\* the snapshot the controller holds
Cached ==
    [ ee_pos |-> ee_pos, ee_ori_mat |-> ee_ori_mat, ee_pos_vel |-> ee_pos_vel,
      ee_ori_vel |-> ee_ori_vel, joint_pos |-> joint_pos, joint_vel |-> joint_vel,
      J_pos |-> J_pos, J_ori |-> J_ori, J_full |-> J_full, mass_matrix |-> mass_matrix ]

\* ------------------------------------------------------------------------
\* update, run_controller, update_initial_joints
\* ------------------------------------------------------------------------
\* a variant of update that refreshes on every call
update_ignores_flag(force) ==
    /\ sim' = forward(sim)
    /\ ee_pos' = Snapshot(sim').ee_pos
    /\ ee_ori_mat' = Snapshot(sim').ee_ori_mat
    /\ ee_pos_vel' = Snapshot(sim').ee_pos_vel
    /\ ee_ori_vel' = Snapshot(sim').ee_ori_vel
    /\ joint_pos' = Snapshot(sim').joint_pos
    /\ joint_vel' = Snapshot(sim').joint_vel
    /\ J_pos' = Snapshot(sim').J_pos
    /\ J_ori' = Snapshot(sim').J_ori
    /\ J_full' = Snapshot(sim').J_full
    /\ mass_matrix' = Snapshot(sim').mass_matrix
    /\ new_update' = FALSE
    /\ ran' = FALSE

\* update(force): the method's effect on the backend, the snapshot and the flag
update(force) ==
    IF new_update \/ force
    THEN /\ sim' = forward(sim)
         /\ ee_pos' = Snapshot(sim').ee_pos
         /\ ee_ori_mat' = Snapshot(sim').ee_ori_mat
         /\ ee_pos_vel' = Snapshot(sim').ee_pos_vel
         /\ ee_ori_vel' = Snapshot(sim').ee_ori_vel
         /\ joint_pos' = Snapshot(sim').joint_pos
         /\ joint_vel' = Snapshot(sim').joint_vel
         /\ J_pos' = Snapshot(sim').J_pos
         /\ J_ori' = Snapshot(sim').J_ori
         /\ J_full' = Snapshot(sim').J_full
         /\ mass_matrix' = Snapshot(sim').mass_matrix
         /\ new_update' = FALSE
         /\ ran' = FALSE
    ELSE UNCHANGED << sim, cacheVars, new_update, ran >>

\* a variant of run_controller that forgets the flag
run_controller_keeps_flag ==
    /\ new_update' = new_update
    /\ ran' = TRUE
    /\ call' = << "run_controller", None, None >>
    /\ UNCHANGED << sim, cacheVars, initialVars, rangeVars, scaleVars, trajVars >>

\* run_controller of the base class (every subclass calls it through super())
run_controller ==
    /\ new_update' = TRUE
    /\ ran' = TRUE
    /\ call' = << "run_controller", None, None >>
    /\ UNCHANGED << sim, cacheVars, initialVars, rangeVars, scaleVars, trajVars >>

\* a variant of update_initial_joints that does not force the refresh
update_initial_joints_unforced(initial_joints) ==
    /\ initial_joint' = initial_joints
    /\ update(FALSE)
    /\ initial_ee_pos' = ee_pos'
    /\ initial_ee_ori_mat' = ee_ori_mat'
    /\ call' = << "update_initial_joints", initial_joints, None >>
    /\ UNCHANGED << initial_ee_ori_vel, rangeVars, scaleVars, trajVars >>

update_initial_joints(initial_joints) ==
    /\ initial_joint' = initial_joints
    /\ update(TRUE)
    /\ initial_ee_pos' = ee_pos'
    /\ initial_ee_ori_mat' = ee_ori_mat'
    /\ call' = << "update_initial_joints", initial_joints, None >>
    /\ UNCHANGED << initial_ee_ori_vel, rangeVars, scaleVars, trajVars >>

\* a variant in which the initial reference follows the snapshot
CallUpdate_moves_reference(force) ==
    /\ update(force)
    /\ call' = << "update", force, None >>
    /\ initial_joint' = joint_pos'
    /\ initial_ee_pos' = ee_pos'
    /\ initial_ee_ori_mat' = ee_ori_mat'
    /\ UNCHANGED << initial_ee_ori_vel, rangeVars, scaleVars, trajVars >>

CallUpdate(force) ==
    /\ update(force)
    /\ call' = << "update", force, None >>
    /\ UNCHANGED << initialVars, rangeVars, scaleVars, trajVars >>

\* ------------------------------------------------------------------------
\* scale_action, clip_torques
\* ------------------------------------------------------------------------
\* np.clip(a, lo, hi) = minimum(maximum(a, lo), hi), element-wise
clip(a, lo, hi) == [i \in DOMAIN a |-> RMin(RMax(a[i], lo[i]), hi[i])]

Half(v) == [i \in DOMAIN v |-> RDiv(v[i], R(2))]

\* the three cached attributes after the `if self.action_scale is None` block
ScaleCache ==
    IF action_scale = None
    THEN << VDiv(VAbs(VSub(output_max, output_min)), VAbs(VSub(input_max, input_min))),
            Half(VAdd(input_max, input_min)),
            Half(VAdd(output_max, output_min)) >>
    ELSE << action_scale, action_input_transform, action_output_transform >>

\* a variant that scales without clamping first
transformed_action_unclipped(action) ==
    LET c == ScaleCache
    IN  VAdd(VMul(VSub(action, c[2]), c[1]), c[3])

\* the value scale_action(action) returns in the current state
transformed_action(action) ==
    LET c == ScaleCache
        a == clip(action, input_min, input_max)
    IN  VAdd(VMul(VSub(a, c[2]), c[1]), c[3])

scale_action(action) ==
    /\ action_scale' = ScaleCache[1]
    /\ action_input_transform' = ScaleCache[2]
    /\ action_output_transform' = ScaleCache[3]
    /\ call' = << "scale_action", action, transformed_action(action) >>
    /\ UNCHANGED << sim, cacheVars, new_update, ran, initialVars, rangeVars, trajVars >>

\* a variant with the limits passed in the wrong order
clipped_torques_swapped(torques) == clip(torques, actuator_max, actuator_min)

clipped_torques(torques) == clip(torques, actuator_min, actuator_max)

clip_torques(torques) ==
    /\ call' = << "clip_torques", torques, clipped_torques(torques) >>
    /\ UNCHANGED << sim, cacheVars, new_update, ran, initialVars, rangeVars, scaleVars,
                    trajVars >>

\* ------------------------------------------------------------------------
\* Minimum-jerk trajectory generator
\* ------------------------------------------------------------------------
upper_bound == 10

\* np.round of one fixed-point entry: nearest integer, ties to even
RoundEntry(x) ==
    LET q == x \div One
        r == x % One
    IN  IF 2 * r < One THEN q * One
        ELSE IF 2 * r > One THEN (q + 1) * One
        ELSE IF q % 2 = 0 THEN q * One ELSE (q + 1) * One
Round(M) == [r \in DOMAIN M |-> [c \in DOMAIN M[r] |-> RoundEntry(M[r][c])]]

\* T.mat2euler on a rotation about z: (0, 0, atan2(m10, m00)), atan2(a, 1) = a
mat2euler(M) == VInt(<< 0, 0, M[2][1] >>)

\* T.Rotation_Matrix_To_Vector: the rotation vector taking R1 to R2 (about z here)
Rotation_Matrix_To_Vector(R1, R2) == << 0, 0, R2[2][1] - R1[2][1] >>

SumSq(v) == v[1] * v[1] + v[2] * v[2] + v[3] * v[3]
RECURSIVE SqrtFrom(_, _)
SqrtFrom(n, k) == IF (k + 1) * (k + 1) > n THEN k ELSE SqrtFrom(n, k + 1)

\* T.Axis2Vector: magnitude and unit direction of a non-zero rotation vector
Axis2Vector(Vrot) ==
    LET m == SqrtFrom(SumSq(Vrot), 0)
    IN  << R(m), [i \in DOMAIN Vrot |-> Norm(Vrot[i], m)] >>

\* the quintic blend and its derivatives, as the expressions of the code
\* a variant of the blend with a wrong quartic coefficient
blend_wrong_coefficient(T, t) ==
    RAdd(RSub(RDiv(RMul(R(6), RPow(t, 5)), RPow(T, 2)),
              RDiv(RMul(R(16), RPow(t, 4)), T)),
         RMul(R(10), RPow(t, 3)))

blend(T, t) ==
    RAdd(RSub(RDiv(RMul(R(6), RPow(t, 5)), RPow(T, 2)),
              RDiv(RMul(R(15), RPow(t, 4)), T)),
         RMul(R(10), RPow(t, 3)))
blend_vel(T, t) ==
    RAdd(RSub(RDiv(RMul(R(30), RPow(t, 4)), RPow(T, 2)),
              RDiv(RMul(R(60), RPow(t, 3)), T)),
         RMul(R(30), RPow(t, 2)))
blend_acc(T, t) ==
    RAdd(RSub(RDiv(RMul(R(120), RPow(t, 3)), RPow(T, 2)),
              RDiv(RMul(R(180), RPow(t, 2)), T)),
         RMul(R(60), t))
traj(init, final, T, t) == RAdd(RMul(RDiv(RSub(final, init), RPow(T, 3)), blend(T, t)), init)
traj_vel(init, final, T, t) == RMul(RDiv(RSub(final, init), RPow(T, 3)), blend_vel(T, t))
traj_acc(init, final, T, t) == RMul(RDiv(RSub(final, init), RPow(T, 3)), blend_acc(T, t))

\* the segment attributes built_min_jerk_traj sets (seg = None before the first call)
Seg == seg[1]
built == seg # None
Last == desired_vec_fin[Len(desired_vec_fin)]

built_min_jerk_traj(t_finial, t_bias, via_point) ==
    /\ final_orientation' = Round(via_point[switch].o)
    /\ IF switch = 1 /\ desired_vec_fin = << >>
       THEN \* desired_vec_fin[-1] raises IndexError: nothing else is assigned
            UNCHANGED << seg, started >>
       ELSE LET xpos == site_xpos(sim)
                pos_in == IF switch = 1
                          THEN << Last[1][1], Last[1][2], xpos[3] >>
                          ELSE xpos
                ori_in == site_xmat(sim)
                pos_fi == via_point[switch].p
            IN  /\ seg' = << [ initial_orientation |-> ori_in,
                            fin_orientation |->
                                IF method = "euler" THEN mat2euler(final_orientation')
                                ELSE None,
                            init_orientation |->
                                IF method = "euler"
                                THEN IF switch = 1 THEN Last[2] ELSE mat2euler(ori_in)
                                ELSE None,
                            X_init |-> pos_in[1], Y_init |-> pos_in[2], Z_init |-> pos_in[3],
                            X_final |-> pos_fi[1], Y_final |-> pos_fi[2],
                            Z_final |-> pos_fi[3],
                            t_finial |-> t_finial, t_bias |-> t_bias ] >>
                /\ started' = << Len(desired_vec_fin), switch >>
    /\ call' = << "built_min_jerk_traj", << t_finial, t_bias >>, None >>
    /\ UNCHANGED << sim, cacheVars, new_update, ran, initialVars, rangeVars, scaleVars,
                    method, switch, desired_vec_fin, ncalls >>

\* locals of built_next_desired_point, as functions of the state
t == R(sim.time - Seg.t_bias)
Tf == R(Seg.t_finial)
position ==
    << traj(Seg.X_init, Seg.X_final, Tf, t), traj(Seg.Y_init, Seg.Y_final, Tf, t),
       traj(Seg.Z_init, Seg.Z_final, Tf, t) >>
velocity ==
    << traj_vel(Seg.X_init, Seg.X_final, Tf, t), traj_vel(Seg.Y_init, Seg.Y_final, Tf, t),
       traj_vel(Seg.Z_init, Seg.Z_final, Tf, t) >>
acceleration ==
    << traj_acc(Seg.X_init, Seg.X_final, Tf, t), traj_acc(Seg.Y_init, Seg.Y_final, Tf, t),
       traj_acc(Seg.Z_init, Seg.Z_final, Tf, t) >>

Vrot == Rotation_Matrix_To_Vector(Seg.initial_orientation, final_orientation)
\* a variant that special-cases only an exactly zero rotation vector
degenerate_only_zero == SumSq(Vrot) = 0

degenerate == SumSq(Vrot) < upper_bound * upper_bound

\* << magnitude_traj, magnitude_vel_traj, direction >> of the 'rotation' branch
rotation_terms ==
    IF degenerate
    THEN << RZero, RZero, << RZero, RZero, RZero >> >>
    ELSE LET md == Axis2Vector(Vrot)
         IN  << RSub(RMul(RDiv(md[1], RPow(Tf, 3)), blend(Tf, t)), md[1]),
                RMul(RDiv(md[1], RPow(Tf, 3)), blend_vel(Tf, t)),
                md[2] >>

orientation ==
    IF method = "rotation"
    THEN VScale(rotation_terms[1], rotation_terms[3])
    ELSE [i \in 1..3 |-> traj(Seg.init_orientation[i], Seg.fin_orientation[i], Tf, t)]
ang_vel ==
    IF method = "rotation"
    THEN VScale(rotation_terms[2], rotation_terms[3])
    ELSE [i \in 1..3 |-> traj_vel(Seg.init_orientation[i], Seg.fin_orientation[i], Tf, t)]

\* a variant that keeps only the newest point
built_next_desired_point_keeps_last ==
    /\ built
    /\ desired_vec_fin' = << << position, orientation, velocity, ang_vel >> >>
    /\ call' = << "built_next_desired_point", None,
                << position, orientation, velocity, ang_vel >> >>
    /\ ncalls' = ncalls + 1
    /\ UNCHANGED << sim, cacheVars, new_update, ran, initialVars, rangeVars, scaleVars,
                    method, switch, final_orientation, seg, started >>

built_next_desired_point ==
    /\ built
    /\ desired_vec_fin' = Append(desired_vec_fin, << position, orientation, velocity, ang_vel >>)
    /\ call' = << "built_next_desired_point", None,
                << position, orientation, velocity, ang_vel >> >>
    /\ ncalls' = ncalls + 1
    /\ UNCHANGED << sim, cacheVars, new_update, ran, initialVars, rangeVars, scaleVars,
                    method, switch, final_orientation, seg, started >>

\* ------------------------------------------------------------------------
\* The stepping loop and the subclass / caller around the controller
\* ------------------------------------------------------------------------
\* sim.step(): kinematics are computed for the old raw state, which is then integrated
SimStep(S) ==
    /\ \E s \in S :
         sim' = [qpos |-> s.qpos, qvel |-> s.qvel, time |-> sim.time + 1,
                 kq |-> sim.qpos, kv |-> sim.qvel]
    /\ call' = << "sim.step", None, None >>
    /\ UNCHANGED << cacheVars, new_update, initialVars, rangeVars, scaleVars, trajVars, ran >>

\* the environment writes the raw state (a reset): derived quantities go stale
SimSetState(S) ==
    /\ \E s \in S : sim' = [sim EXCEPT !.qpos = s.qpos, !.qvel = s.qvel]
    /\ call' = << "sim.data", None, None >>
    /\ UNCHANGED << cacheVars, new_update, initialVars, rangeVars, scaleVars, trajVars, ran >>

\* the subclass selects the via-point of the next segment
SetSwitch(k) ==
    /\ switch' = k
    /\ call' = << "switch", k, None >>
    /\ UNCHANGED << sim, cacheVars, new_update, initialVars, rangeVars, scaleVars,
                    method, desired_vec_fin, final_orientation, seg, ncalls, started, ran >>

\* ------------------------------------------------------------------------
\* Inputs
\* ------------------------------------------------------------------------
Methods == { "euler", "rotation" }
Uniform(x, n) == [i \in 1..n |-> R(x)]
control_dim == Len(joint_indexes.joints)

\* (input_min, input_max, output_min, output_max, actuator_min, actuator_max)
DefaultRanges ==
    [ input_min |-> Uniform(-1, control_dim), input_max |-> Uniform(1, control_dim),
      output_min |-> Uniform(-2, control_dim), output_max |-> Uniform(4, control_dim),
      actuator_min |-> Uniform(-1, joint_dim), actuator_max |-> Uniform(1, joint_dim) ]

JointInputs == { << 0, 0 >>, << 2, 1 >> }
\* the via_point dictionaries the caller passes: key k holds 'p' + str(k), 'o' + str(k)
Sloppy == << << 9000000, -4000000, 0 >>, << 4000000, 9000000, 0 >>, << 0, 0, One >> >>
ViaPoint ==
    [k \in 0..MaxSwitch |->
        [p |-> VInt(<< 3 - k, 1 + k, 2 >>), o |-> IF k % 2 = 0 THEN RotZ(5) ELSE Sloppy]]
ViaPointB == [k \in 0..MaxSwitch |-> [p |-> VInt(<< 0, 2, 1 >>), o |-> RotZ(0)]]

\* ------------------------------------------------------------------------
\* Construction and the specification
\* ------------------------------------------------------------------------
\* the state __init__ leaves: sim.forward(), update(), the initial reference
Constructed(s0, m, rg) ==
    /\ sim = forward([qpos |-> s0.qpos, qvel |-> s0.qvel, time |-> 0,
                      kq |-> s0.qpos, kv |-> s0.qvel])
    /\ actuator_min = rg.actuator_min
    /\ actuator_max = rg.actuator_max
    /\ action_scale = None
    /\ action_input_transform = None
    /\ action_output_transform = None
    /\ output_min = rg.output_min
    /\ output_max = rg.output_max
    /\ input_min = rg.input_min
    /\ input_max = rg.input_max
    /\ ee_pos = Snapshot(sim).ee_pos
    /\ ee_ori_mat = Snapshot(sim).ee_ori_mat
    /\ ee_pos_vel = Snapshot(sim).ee_pos_vel
    /\ ee_ori_vel = Snapshot(sim).ee_ori_vel
    /\ joint_pos = Snapshot(sim).joint_pos
    /\ joint_vel = Snapshot(sim).joint_vel
    /\ J_pos = Snapshot(sim).J_pos
    /\ J_ori = Snapshot(sim).J_ori
    /\ J_full = Snapshot(sim).J_full
    /\ mass_matrix = Snapshot(sim).mass_matrix
    /\ new_update = FALSE
    /\ initial_joint = joint_pos
    /\ initial_ee_pos = ee_pos
    /\ initial_ee_ori_mat = ee_ori_mat
    /\ initial_ee_ori_vel = ee_ori_vel
    /\ desired_vec_fin = << >>
    /\ switch = 0
    /\ method = m
    /\ final_orientation = None
    /\ seg = None
    /\ call = << "__init__", None, None >>
    /\ ran = FALSE
    /\ ncalls = 0
    /\ started = None

\* the operations, with inputs drawn from the sets of `in`
EnvStep(in) ==
    \/ sim.time < MaxTime /\ SimStep(in.sims)
    \/ SimSetState(in.sims)

CacheStep(in) ==
    \/ \E force \in BOOLEAN : CallUpdate(force)
    \/ run_controller
    \/ \E j \in in.joints : update_initial_joints(j)

ScaleStep(in) ==
    \/ \E a \in in.actions : scale_action(a)
    \/ \E tq \in in.torques : clip_torques(tq)

TrajStep(in) ==
    \/ \E k \in in.switches : SetSwitch(k)
    \/ \E T \in in.durations, ago \in in.starts \cap (0..sim.time), via_point \in in.vias :
         built_min_jerk_traj(T, sim.time - ago, via_point)
    \/ Len(desired_vec_fin) < MaxHist /\ built_next_desired_point

\* every operation of the controller; the clock stands still
AllInputs ==
    [ sims |-> CoarseSimStates, joints |-> { << 2, 1 >> },
      actions |-> { VInt(<< 2, -1 >>) }, torques |-> { VInt(<< -3, 2 >>) },
      switches |-> { 0, 1 }, durations |-> { 1 }, starts |-> { 0 },
      vias |-> { ViaPoint } ]

Init == \E s0 \in CoarseSimStates, m \in Methods : Constructed(s0, m, DefaultRanges)
Next ==
    \/ SimSetState(AllInputs.sims)
    \/ CacheStep(AllInputs)
    \/ ScaleStep(AllInputs)
    \/ TrajStep(AllInputs)
Spec == Init /\ [][Next]_vars

\* the cache life cycle
CacheInputs == [ sims |-> SimStates, joints |-> JointInputs ]
InitCache == \E s0 \in SimStates : Constructed(s0, "euler", DefaultRanges)
NextCache == EnvStep(CacheInputs) \/ CacheStep(CacheInputs)
SpecCache == InitCache /\ [][NextCache]_vars

\* chains of trajectory segments
TrajInputs ==
    [ sims |-> CoarseSimStates, switches |-> 0..MaxSwitch, durations |-> { 1 },
      starts |-> { 0 }, vias |-> { ViaPoint } ]
InitTraj == \E s0 \in CoarseSimStates, m \in Methods : Constructed(s0, m, DefaultRanges)
NextTraj == (sim.time < MaxTime /\ SimStep(TrajInputs.sims)) \/ TrajStep(TrajInputs)
SpecTraj == InitTraj /\ [][NextTraj]_vars

\* evaluations of a segment while the arm rests and the clock runs
PointInputs ==
    [ switches |-> { 0 }, durations |-> 1..MaxDuration,
      starts |-> { 0 }, vias |-> { ViaPoint, ViaPointB } ]
InitPoint == \E s0 \in SimStates, m \in Methods : Constructed(s0, m, DefaultRanges)
NextPoint ==
    \/ sim.time < MaxTime /\ SimStep({ [qpos |-> sim.qpos, qvel |-> sim.qvel] })
    \/ TrajStep(PointInputs)
SpecPoint == InitPoint /\ [][NextPoint]_vars

\* scale_action and clip_torques over many ranges and arguments
\* per-element (min, max) pairs: proper, shifted, and inverted / degenerate ones
InputPairs == { << -1, 1 >>, << 0, 2 >>, << 1, -1 >> }
OutputPairs == { << -1, 1 >>, << 0, 2 >>, << -2, 4 >>, << 1, 1 >>, << 3, -1 >> }
ActuatorPairs == { << -1, 1 >>, << 0, 2 >> }
Vec2(x, y) == VInt(<< x, y >>)
Mins(pp) == Vec2(pp[1][1], pp[2][1])
Maxs(pp) == Vec2(pp[1][2], pp[2][2])
RangeConfigs ==
    { [ input_min |-> Mins(i), input_max |-> Maxs(i),
        output_min |-> Mins(o), output_max |-> Maxs(o),
        actuator_min |-> Mins(q), actuator_max |-> Maxs(q) ] :
      i \in InputPairs \X InputPairs,
      o \in { << x, x >> : x \in OutputPairs }
            \cup { << << -1, 1 >>, << -2, 4 >> >>, << << 0, 2 >>, << 3, -1 >> >> },
      q \in { << x, x >> : x \in ActuatorPairs } }
ArgValues == -2..3
ArgVectors == { Vec2(x, y) : x, y \in ArgValues }
ScaleInputs == [ actions |-> ArgVectors, torques |-> ArgVectors ]

InitScale == \E rg \in RangeConfigs : Constructed([qpos |-> << 0, 0, 0 >>, qvel |-> << 0, 0, 0 >>], "euler", rg)
NextScale == ScaleStep(ScaleInputs)
SpecScale == InitScale /\ [][NextScale]_vars

\* ------------------------------------------------------------------------
\* Properties
\* ------------------------------------------------------------------------
Zero3 == << RZero, RZero, RZero >>
Is(c, name) == c[1] = name
Fresh == Snapshot(forward(sim))

\* C1: a non-forced update in a clean state (new_update false) does not touch the
\* backend (no forward) and leaves all ten snapshot fields and the flag as they were,
\* whatever the backend state has become; so consecutive non-forced updates keep the
\* snapshot of the first.
C1_CleanUpdateKeepsSnapshot ==
    [][ (Is(call', "update") /\ call'[2] = FALSE /\ ~new_update)
        => (sim' = sim /\ Cached' = Cached /\ ~new_update') ]_vars

\* a non-forced update has returned although the backend would give another snapshot
C1_Witness ==
    /\ Is(call, "update") /\ call[2] = FALSE
    /\ sim # forward(sim)
    /\ Cached # Fresh

\* C2: run_controller sets new_update; an update in a dirty state, forced or not,
\* re-queries the backend, leaves the snapshot equal to the backend's current state
\* and clears the flag; new_update is true exactly when run_controller was called
\* since the last refreshing update.
C2_DirtyFlagProtocol ==
    /\ [](new_update = ran)
    /\ [][ /\ Is(call', "run_controller") => new_update'
           /\ (Is(call', "update") /\ new_update)
                => (sim' = forward(sim) /\ Cached' = Fresh /\ ~new_update') ]_vars

\* run_controller has just marked a snapshot dirty that the backend has moved away from
C2_Witness ==
    /\ Is(call, "run_controller")
    /\ new_update
    /\ Cached # Fresh

\* C7: update_initial_joints(joints) stores joints as initial_joint, refreshes the
\* snapshot from the backend whether or not the flag was set, and makes the initial
\* end-effector pose the refreshed one; the flag is clear afterwards.
C7_UpdateInitialJoints ==
    [][ Is(call', "update_initial_joints")
        => /\ initial_joint' = call'[2]
           /\ sim' = forward(sim)
           /\ Cached' = Fresh
           /\ initial_ee_pos' = ee_pos'
           /\ initial_ee_ori_mat' = ee_ori_mat'
           /\ ~new_update' ]_vars

\* update_initial_joints has returned with joints that are not the backend's
C7_Witness ==
    /\ Is(call, "update_initial_joints")
    /\ initial_joint = call[2]
    /\ initial_joint # joint_pos
    /\ initial_ee_pos = ee_pos
    /\ ~new_update

\* C9: the history desired_vec_fin is append-only: empty after construction, grown by
\* exactly the returned (position, orientation, velocity, angular velocity) at every
\* built_next_desired_point call and left as it is by every other operation; its
\* length is the number of built_next_desired_point calls since construction.
C9_HistoryAppendOnly ==
    /\ [](Is(call, "__init__") => desired_vec_fin = << >>)
    /\ [](ncalls = Len(desired_vec_fin))
    /\ [][ IF Is(call', "built_next_desired_point")
           THEN desired_vec_fin' = Append(desired_vec_fin, call'[3])
           ELSE desired_vec_fin' = desired_vec_fin ]_vars

\* two different points are in the history and another operation has run since
C9_Witness ==
    /\ Len(desired_vec_fin) = 2
    /\ desired_vec_fin[1] # desired_vec_fin[2]
    /\ ncalls = 2
    /\ Is(call, "built_min_jerk_traj")
    /\ action_scale # None

\* C10: construction leaves the flag clear and the initial reference equal to the
\* snapshot it populated; afterwards no operation but update_initial_joints changes
\* initial_joint, initial_ee_pos or initial_ee_ori_mat, however the backend moves.
C10_InitialReferenceFixed ==
    /\ [](Is(call, "__init__")
            => /\ ~new_update
               /\ Cached = Snapshot(sim)
               /\ initial_joint = joint_pos
               /\ initial_ee_pos = ee_pos
               /\ initial_ee_ori_mat = ee_ori_mat)
    /\ [][ ~Is(call', "update_initial_joints")
           => UNCHANGED << initial_joint, initial_ee_pos, initial_ee_ori_mat >> ]_vars

\* a forced update has refreshed the snapshot away from the reference of a controller
\* whose update_initial_joints was never called
C10_Witness ==
    /\ Is(call, "update") /\ call[2] = TRUE
    /\ initial_joint \notin AllInputs.joints
    /\ initial_ee_pos # ee_pos
    /\ initial_joint # joint_pos
    /\ desired_vec_fin # << >>

\* C4: for a built segment the quintic law evaluated by built_next_desired_point at
\* elapsed time t = 0 gives position = initial, velocity = 0 and acceleration = 0 on
\* every axis, and at t = T gives position = final, velocity = 0 and acceleration = 0.
C4_QuinticBoundaryConditions ==
    Is(call, "built_next_desired_point")
    => /\ t = RZero
            => /\ call[3][1] = << Seg.X_init, Seg.Y_init, Seg.Z_init >>
               /\ call[3][3] = Zero3
               /\ acceleration = Zero3
       /\ t = Tf
            => /\ call[3][1] = << Seg.X_final, Seg.Y_final, Seg.Z_final >>
               /\ call[3][3] = Zero3
               /\ acceleration = Zero3

\* the end of the longest segment, which moves on all three axes, has been evaluated
C4_Witness ==
    /\ Is(call, "built_next_desired_point")
    /\ Seg.t_finial = MaxDuration
    /\ t = Tf
    /\ \A i \in 1..3 :
         << Seg.X_init, Seg.Y_init, Seg.Z_init >>[i]
            # << Seg.X_final, Seg.Y_final, Seg.Z_final >>[i]
    /\ call[3][1] = << Seg.X_final, Seg.Y_final, Seg.Z_final >>

\* C6: under method 'rotation', when the rotation vector between the segment's initial
\* and final orientation has norm below 1e-6 (10 units of 1e-7), the orientation delta
\* and the angular velocity built_next_desired_point returns are exactly zero, at
\* every queried time.
C6_DegenerateRotationIsZero ==
    ( /\ Is(call, "built_next_desired_point")
      /\ method = "rotation"
      /\ SumSq(Rotation_Matrix_To_Vector(Seg.initial_orientation, final_orientation))
            < 10 * 10 )
    => /\ call[3][2] = Zero3
       /\ call[3][4] = Zero3

\* a small but non-zero relative rotation was evaluated in the middle of its segment
C6_Witness ==
    /\ Is(call, "built_next_desired_point")
    /\ method = "rotation"
    /\ Vrot # << 0, 0, 0 >>
    /\ degenerate
    /\ RLt(RZero, t) /\ RLt(t, Tf)
    /\ call[3][2] = Zero3
    /\ call[3][4] = Zero3

\* C3: for a valid input range (input_min < input_max) scale_action is monotonic
\* non-decreasing in the action, maps the input midpoint to the output midpoint and,
\* the output range being valid too (output_min <= output_max), input_min to
\* output_min and input_max to output_max; an action outside the input range gives
\* the result of the nearest bound (the clamp comes before the scaling).
C3_ScaleAction ==
    Is(call, "scale_action")
    => LET a == call[2]
           r == call[3]
       IN  \A i \in DOMAIN a :
             RLt(input_min[i], input_max[i])
             => /\ \A b \in ArgVectors :
                     RLeq(b[i], a[i]) => RLeq(transformed_action(b)[i], r[i])
                /\ a[i] = Half(VAdd(input_max, input_min))[i]
                     => r[i] = Half(VAdd(output_max, output_min))[i]
                /\ RLeq(a[i], input_min[i]) => r[i] = transformed_action(input_min)[i]
                /\ RLeq(input_max[i], a[i]) => r[i] = transformed_action(input_max)[i]
                /\ RLeq(output_min[i], output_max[i])
                     => /\ RLeq(a[i], input_min[i]) => r[i] = output_min[i]
                        /\ RLeq(input_max[i], a[i]) => r[i] = output_max[i]

\* one element below its input range and one above, both ranges proper and different
C3_Witness ==
    /\ Is(call, "scale_action")
    /\ RLt(call[2][1], input_min[1]) /\ RLt(input_min[1], input_max[1])
    /\ RLt(input_max[2], call[2][2]) /\ RLt(input_min[2], input_max[2])
    /\ RLt(output_min[1], output_max[1]) /\ RLt(output_min[2], output_max[2])
    /\ << output_min[1], output_max[1] >> # << input_min[1], input_max[1] >>
    /\ call[3] = << output_min[1], output_max[2] >>

InRange(v, lo, hi) == VLeq(lo, v) /\ VLeq(v, hi)

\* C8 as stated: on in-range input scale_action(scale_action(action)) equals
\* scale_action(action) and clip_torques(clip_torques(torques)) equals
\* clip_torques(torques) equals torques; neither call changes controller state other
\* than the one-time caching of the scale factor and offsets.
C8_Original ==
    /\ (Is(call, "scale_action") /\ InRange(call[2], input_min, input_max))
         => transformed_action(call[3]) = call[3]
    /\ (Is(call, "clip_torques") /\ InRange(call[2], actuator_min, actuator_max))
         => /\ clipped_torques(call[3]) = call[3]
            /\ call[3] = call[2]

\* the state a call of scale_action or clip_torques may change: the cache, once
ScaleFrame ==
    /\ UNCHANGED << sim, cacheVars, new_update, initialVars, rangeVars, method, switch,
                    desired_vec_fin, final_orientation, seg >>
    /\ action_scale # None => UNCHANGED scaleVars
    /\ Is(call', "clip_torques") => UNCHANGED scaleVars

\* C8, amended: clip_torques is the identity, hence idempotent, on in-range torques;
\* scale_action applied to its own in-range result reproduces it in the elements whose
\* output range equals the (proper) input range, where it is the identity, and in the
\* elements whose output range is a single point, but not in general; neither call
\* changes controller state other than the one-time caching of the scale factor and
\* offsets.
C8_Amended ==
    /\ [](Is(call, "clip_torques") /\ InRange(call[2], actuator_min, actuator_max)
            => /\ clipped_torques(call[3]) = call[3]
               /\ call[3] = call[2])
    /\ [](Is(call, "scale_action") /\ InRange(call[2], input_min, input_max)
            => \A i \in DOMAIN call[2] :
                 /\ ( /\ RLt(input_min[i], input_max[i])
                      /\ output_min[i] = input_min[i]
                      /\ output_max[i] = input_max[i] )
                      => /\ call[3][i] = call[2][i]
                         /\ transformed_action(call[3])[i] = call[3][i]
                 /\ ( /\ RLt(input_min[i], input_max[i])
                      /\ output_min[i] = output_max[i] )
                      => transformed_action(call[3])[i] = call[3][i])
    /\ [][ (Is(call', "scale_action") \/ Is(call', "clip_torques")) => ScaleFrame ]_vars

\* scale_action, its cache already filled, has mapped an in-range action that is not
\* the midpoint onto itself
C8_Witness ==
    /\ Is(call, "scale_action")
    /\ InRange(call[2], input_min, input_max)
    /\ output_min = input_min /\ output_max = input_max
    /\ \A i \in DOMAIN call[2] : RLt(input_min[i], input_max[i])
    /\ call[2] # action_input_transform
    /\ call[3] = call[2]
    /\ transformed_action(call[3]) = call[3]

\* a handoff in a chain: built_min_jerk_traj is called for the via point after the one
\* of the current segment, which was evaluated at least once since it was built
Handoff ==
    /\ Is(call', "built_min_jerk_traj")
    /\ started # None
    /\ Len(desired_vec_fin) > started[1]
    /\ switch = started[2] + 1

\* C5: at every handoff in a chain of segments the new segment's initial X and Y (and,
\* under method 'euler', its initial orientation) are those of the last entry of the
\* history desired_vec_fin, not the backend's end-effector state.
C5_ContinuityAtEveryHandoff ==
    [][ Handoff
        => /\ Seg'.X_init = Last[1][1]
           /\ Seg'.Y_init = Last[1][2]
           /\ method = "euler" => Seg'.init_orientation = Last[2] ]_vars

\* the third segment of a chain was started from the backend's end-effector position,
\* away from the last point of the history
C5_Witness ==
    /\ Is(call, "built_min_jerk_traj")
    /\ started = << 2, 2 >>
    /\ Len(desired_vec_fin) = 2
    /\ << Seg.X_init, Seg.Y_init >> = << site_xpos(sim)[1], site_xpos(sim)[2] >>
    /\ << Seg.X_init, Seg.Y_init >> # << Last[1][1], Last[1][2] >>

====
